---- MODULE Spec2Model ----
(***************************************************************************)
(* Addressing and delegation layer of the I2C control library:             *)
(* I2CDevice (i2c_device.py), I2CContainer (i2c_container.py) and the      *)
(* TCA9548 bus multiplexer (tca9548.py).                                   *)
(*                                                                         *)
(* Every public operation is one action.  An operation is computed by      *)
(* operators over a record `s` holding the objects' fields, the bus log of *)
(* the operation, the transport outcomes still to be consumed and the      *)
(* exception in flight, so that the order of hook calls, cache comparisons *)
(* and bus transactions inside one call is part of the state.              *)
(***************************************************************************)
EXTENDS Integers, Sequences, FiniteSets, TLC

(* ------------------------------ universe ------------------------------ *)

\* object identities: TCA9548 instances, I2CContainer instances, leaf devices
Muxes == {"A", "B"}
Containers == {"K"}
Leaves == {"D1", "D2"}

Parents == Muxes \cup Containers
Devices == Muxes \cup Leaves
Objects == Parents \cup Leaves

\* the classes that carry the accessors: the base class and two derived ones
Base == "I2CDevice"
Classes == {Base, "TCA9548", "AD5245"}
ClassOf(d) == IF d \in Muxes THEN "TCA9548" ELSE "AD5245"

\* leaves that exist before any operation; the others are built by a factory
InitialLeaves == {"D1"}

\* a value that is neither an I2CDevice nor an I2CContainer nor callable
Junk == "junk"
\* callables: a leaf device class, and a callable that returns a non-device
LeafClass == "LeafClass"
JunkFactory == "JunkFactory"
Factories == {LeafClass, JunkFactory}

\* pre_access = None
None == "None"
\* _selected_channel = None
NoChannel == -1

\* largest channel number passed to TCA9548.attach_device
MaxChannel == 1
Channels == 0..MaxChannel

\* write_byte_data sends one byte: the control register holds 8 bits, one
\* for each channel of the multiplexer
RegisterBits == 8
\* channel arguments a client may pass: the channels, and the first number
\* that is no channel of the multiplexer
ChannelArgs == Channels \cup {RegisterBits}

\* largest register number and largest value passed to an accessor
MaxData == 1
Registers == 0..MaxData
Values == 0..MaxData

\* largest number of attachments (channel-map entries plus container-list
\* entries) held at one time
MaxAttached == 2

\* the eight accessors of I2CDevice
WriteOps == {"write8", "write16", "writeList"}
ReadOps == {"readList", "readU8", "readS8", "readU16", "readS16"}
EntryPoints == WriteOps \cup ReadOps

\* the accessors wrapped by @call_pre_access
Decorated == {"write8", "write16", "writeList", "readList",
              "readU8", "readS8", "readU16", "readS16"}

\* a delegation chain deeper than the number of parents repeats a parent:
\* the recursion then never returns and Python raises RecursionError
MaxDepth == Cardinality(Parents) + 1

\* largest number of operations in one run
MaxSteps == 3

\* the threads of the client, and a thread that is not inside an accessor
Threads == {"t1", "t2"}
NoPending == [node |-> None, op |-> None, between |-> FALSE]

VARIABLES
  pre_access,          \* object -> None or the parent whose callback is installed
  attached_list,       \* container -> its _attached_devices list
  attached_map,        \* multiplexer -> its _attached_devices dict (device -> channel)
  selected_channel,    \* multiplexer -> _selected_channel (NoChannel or a channel)
  hwreg,               \* multiplexer -> content of its physical control register
  alive,               \* the objects constructed so far
  enable_exceptions,   \* class -> its own _enable_exceptions attribute, for
                       \* the classes that have one (the base class always has)
  accessed_via,        \* the multiplexers a node attached to them has been
                       \* accessed through since they were constructed
  pending,             \* thread -> the access whose hook has returned and whose
                       \* bus transaction is still to be issued, if any
  last,                \* the last operation: what was called, its outcome, its bus log
  steps                \* number of operations performed

vars == <<pre_access, attached_list, attached_map, selected_channel, hwreg,
          alive, enable_exceptions, accessed_via, pending, last, steps>>

(* ------------------------ the operation record ------------------------ *)

\* no error message has been built
NoReport == [name |-> None, address |-> None, register |-> 0, cause |-> 0]

\* the objects' fields at the start of an operation, an empty log, the
\* transport outcomes `fl` (TRUE = the transaction fails), no exception
Start(fl) ==
  [pre |-> pre_access, att |-> attached_list, chan |-> attached_map,
   sel |-> selected_channel, hw |-> hwreg, alive |-> alive,
   log |-> <<>>, fl |-> fl, exc |-> "none", ret |-> "None", obj |-> None,
   err |-> NoReport]

Raise(s, e) == [s EXCEPT !.exc = e]
Emit(s, e) == [s EXCEPT !.log = Append(@, e)]

(* ----------------------------- i2c_device ----------------------------- *)

\* self._enable_exceptions: the attribute of the object's class if the class
\* has its own, else the attribute of the base class
Enabled(flags, d) ==
  IF ClassOf(d) \in DOMAIN flags THEN flags[ClassOf(d)] ELSE flags[Base]

\* I2CDevice.handle_error: build the message; raise if exceptions are enabled,
\* else return ERROR
handle_error(s, dev, access_name, register, error) ==
  LET Report(s1) == IF Enabled(enable_exceptions, dev)
                    THEN Raise(s1, "BusAccessError")
                    ELSE [s1 EXCEPT !.ret = "ERROR"]
  IN Report([s EXCEPT !.err = [name |-> access_name, address |-> dev,
                               register |-> register, cause |-> error]])

\* the register an accessor passes to handle_error in its except clause
ReportedRegister(op, reg, val) == IF op = "write16" THEN val ELSE reg

\* variant of the body of an accessor: a failed transaction is tried again
Transaction_retry(s, dev, op, reg, val) ==
  LET fail == IF s.fl = <<>> THEN FALSE ELSE Head(s.fl)
      rest == IF s.fl = <<>> THEN <<>> ELSE Tail(s.fl)
      e == [ev |-> "txn", dev |-> dev, val |-> val, ok |-> ~fail, hw |-> s.hw]
      Again(s1) ==
        IF fail THEN Emit(s1, [e EXCEPT !.ok = TRUE])
        ELSE s1
      Done(s1) ==
        IF dev \in Muxes /\ op = "write8"
        THEN [s1 EXCEPT !.hw[dev] = val % 2^RegisterBits, !.ret = "None"]
        ELSE [s1 EXCEPT !.ret = IF op \in ReadOps THEN "data" ELSE "None"]
  IN Done(Again([s EXCEPT !.log = Append(@, e), !.fl = rest]))

\* the body of an accessor: one smbus transaction inside try/except IOError.
\* A write8 that reaches a multiplexer stores the byte in its control
\* register.  The IOError caught is identified by the transaction it ended.
Transaction(s, dev, op, reg, val) ==
  LET fail == IF s.fl = <<>> THEN FALSE ELSE Head(s.fl)
      rest == IF s.fl = <<>> THEN <<>> ELSE Tail(s.fl)
      e == [ev |-> "txn", dev |-> dev, val |-> val, ok |-> ~fail, hw |-> s.hw]
      Done(s1) ==
        IF fail
        THEN handle_error(s1, dev, op, ReportedRegister(op, reg, val), Len(s1.log))
        ELSE IF dev \in Muxes /\ op = "write8"
             THEN [s1 EXCEPT !.hw[dev] = val % 2^RegisterBits, !.ret = "None"]
             ELSE [s1 EXCEPT !.ret = IF op \in ReadOps THEN "data" ELSE "None"]
  IN Done([s EXCEPT !.log = Append(@, e), !.fl = rest])

RECURSIVE InvokeHook(_, _, _, _)

\* variant of the first half of call_pre_access.wrapper: no hook is called
wrapper_pre_access_skipped(s, dev, op, fuel) == s

\* variant of the first half of call_pre_access.wrapper: an error raised by
\* the hook is caught and the access goes on
wrapper_pre_access_caught(s, dev, op, fuel) ==
  LET Caught(s1) == [s1 EXCEPT !.exc = "none"]
  IN IF op \in Decorated /\ s.pre[dev] # None
     THEN Caught(InvokeHook(s, s.pre[dev], dev, fuel))
     ELSE s

\* the first half of call_pre_access.wrapper: the hook is called if one is set
wrapper_pre_access(s, dev, op, fuel) ==
  IF op \in Decorated /\ s.pre[dev] # None
  THEN InvokeHook(s, s.pre[dev], dev, fuel)
  ELSE s

\* variant of call_pre_access: the transaction is issued first, the hook after it
call_pre_access_hook_late(s, dev, op, reg, val, fuel) ==
  LET Hook(s1) == IF s1.exc # "none" \/ s.pre[dev] = None THEN s1
                  ELSE InvokeHook(s1, s.pre[dev], dev, fuel)
  IN Hook(Transaction(s, dev, op, reg, val))

\* call_pre_access.wrapper around an accessor
call_pre_access(s, dev, op, reg, val, fuel) ==
  LET Func(s1) == IF s1.exc # "none" THEN s1 ELSE Transaction(s1, dev, op, reg, val)
  IN Func(wrapper_pre_access(s, dev, op, fuel))

(* ------------------------------ tca9548 ------------------------------- *)

\* variant of TCA9548.__device_callback: the channel is written on every call
TCA_device_callback_no_cache(s, m, device, fuel) ==
  IF device \notin DOMAIN s.chan[m] THEN Raise(s, "ChainIntegrityError")
  ELSE
    LET c == s.chan[m][device]
        Select(s1) ==
          IF s1.exc # "none" THEN s1
          ELSE call_pre_access(
                 Emit([s1 EXCEPT !.sel[m] = c],
                      [ev |-> "cmp", mux |-> m, arg |-> device,
                       was |-> s1.sel[m], hit |-> c = s1.sel[m]]),
                 m, "write8", 0, 2^c, fuel)
    IN Select(IF s.pre[m] # None THEN InvokeHook(s, s.pre[m], m, fuel) ELSE s)

\* variant of TCA9548.__device_callback: the own channel is selected before
\* the upstream callback is called
TCA_device_callback_select_first(s, m, device, fuel) ==
  IF device \notin DOMAIN s.chan[m] THEN Raise(s, "ChainIntegrityError")
  ELSE
    LET c == s.chan[m][device]
        Upstream(s1) == IF s1.exc # "none" \/ s.pre[m] = None THEN s1
                        ELSE InvokeHook(s1, s.pre[m], m, fuel)
    IN Upstream(IF c = s.sel[m]
                THEN Emit(s, [ev |-> "cmp", mux |-> m, arg |-> device,
                              was |-> s.sel[m], hit |-> TRUE])
                ELSE Transaction(
                       Emit([s EXCEPT !.sel[m] = c],
                            [ev |-> "cmp", mux |-> m, arg |-> device,
                             was |-> s.sel[m], hit |-> FALSE]),
                       m, "write8", 0, 2^c))

\* variant of TCA9548.__device_callback: the own callback is called before
\* the device is looked up
TCA_device_callback_check_late(s, m, device, fuel) ==
  LET Select(s1) ==
        IF s1.exc # "none" THEN s1
        ELSE IF device \notin DOMAIN s1.chan[m] THEN Raise(s1, "ChainIntegrityError")
        ELSE IF s1.chan[m][device] = s1.sel[m]
             THEN Emit(s1, [ev |-> "cmp", mux |-> m, arg |-> device,
                            was |-> s1.sel[m], hit |-> TRUE])
             ELSE call_pre_access(
                    Emit([s1 EXCEPT !.sel[m] = s1.chan[m][device]],
                         [ev |-> "cmp", mux |-> m, arg |-> device,
                          was |-> s1.sel[m], hit |-> FALSE]),
                    m, "write8", 0, 2^(s1.chan[m][device]), fuel)
  IN Select(IF s.pre[m] # None THEN InvokeHook(s, s.pre[m], m, fuel) ELSE s)

\* variant of TCA9548.__device_callback: the channel written is not stored
\* in _selected_channel
TCA_device_callback_cache_unset(s, m, device, fuel) ==
  IF device \notin DOMAIN s.chan[m] THEN Raise(s, "ChainIntegrityError")
  ELSE
    LET c == s.chan[m][device]
        Select(s1) ==
          IF s1.exc # "none" THEN s1
          ELSE IF c = s1.sel[m]
               THEN Emit(s1, [ev |-> "cmp", mux |-> m, arg |-> device,
                              was |-> s1.sel[m], hit |-> TRUE])
               ELSE call_pre_access(
                      Emit(s1, [ev |-> "cmp", mux |-> m, arg |-> device,
                                was |-> s1.sel[m], hit |-> FALSE]),
                      m, "write8", 0, 2^c, fuel)
    IN Select(IF s.pre[m] # None THEN InvokeHook(s, s.pre[m], m, fuel) ELSE s)

\* TCA9548.__device_callback
TCA_device_callback(s, m, device, fuel) ==
  IF device \notin DOMAIN s.chan[m] THEN Raise(s, "ChainIntegrityError")
  ELSE
    LET c == s.chan[m][device]
        Select(s1) ==
          IF s1.exc # "none" THEN s1
          ELSE IF c = s1.sel[m]
               THEN Emit(s1, [ev |-> "cmp", mux |-> m, arg |-> device,
                              was |-> s1.sel[m], hit |-> TRUE])
               ELSE call_pre_access(
                      Emit([s1 EXCEPT !.sel[m] = c],
                           [ev |-> "cmp", mux |-> m, arg |-> device,
                            was |-> s1.sel[m], hit |-> FALSE]),
                      m, "write8", 0, 2^c, fuel)
    IN Select(IF s.pre[m] # None THEN InvokeHook(s, s.pre[m], m, fuel) ELSE s)

(* ---------------------------- i2c_container --------------------------- *)

\* I2CContainer._device_callback
Container_device_callback(s, k, device, fuel) ==
  IF s.pre[k] # None THEN InvokeHook(s, s.pre[k], k, fuel) ELSE s

\* calling the bound method stored in pre_access; `parent` owns the method
InvokeHook(s, parent, device, fuel) ==
  IF fuel = 0 THEN Raise(s, "RecursionError")
  ELSE
    LET Call(s0) == IF parent \in Muxes
                    THEN TCA_device_callback(s0, parent, device, fuel - 1)
                    ELSE Container_device_callback(s0, parent, device, fuel - 1)
        Returned(s1) ==
          IF s1.exc # "none" THEN s1
          ELSE Emit(s1, [ev |-> "ret", hook |-> parent, arg |-> device])
    IN Returned(Call(Emit(s, [ev |-> "call", hook |-> parent, arg |-> device])))

\* the class passed to attach_device is called: a leaf device class builds a
\* new device, whose constructor reads its registers back (no hook is set
\* yet); the other callable returns a value that is no device
Construct(s, cls) ==
  IF cls = JunkFactory THEN [s EXCEPT !.obj = Junk]
  ELSE
    LET new == CHOOSE x \in Leaves \ s.alive : TRUE
        Built(s1) == IF s1.exc # "none" THEN [s1 EXCEPT !.alive = s.alive]
                     ELSE [s1 EXCEPT !.obj = new]
    IN Built(call_pre_access([s EXCEPT !.alive = @ \cup {new}],
                             new, "readU8", 0, 0, MaxDepth))

\* I2CContainer.attach_device
Container_attach_device(s, k, device) ==
  LET Call(h) == IF h.exc # "none" THEN h ELSE Construct(h, device)
      Record(s1) ==
        IF s1.exc # "none" THEN s1
        ELSE IF s1.obj \notin Objects THEN Raise(s1, "TypeMismatchError")
        ELSE [s1 EXCEPT !.att[k] = Append(@, s1.obj), !.pre[s1.obj] = k]
  IN Record(IF device \in Factories
            THEN Call(IF s.pre[k] # None
                      THEN InvokeHook(s, s.pre[k], k, MaxDepth)
                      ELSE s)
            ELSE [s EXCEPT !.obj = device])

\* list.remove: drop the first occurrence of x
RemoveFirst(seq, x) ==
  LET i == CHOOSE j \in 1..Len(seq) :
             seq[j] = x /\ \A h \in 1..(j - 1) : seq[h] # x
  IN SubSeq(seq, 1, i - 1) \o SubSeq(seq, i + 1, Len(seq))

InList(seq, x) == \E i \in 1..Len(seq) : seq[i] = x

\* variant of I2CContainer.remove_device: with exceptions disabled the error
\* value is returned for a device that is not attached
Container_remove_device_sentinel(s, k, device) ==
  IF InList(s.att[k], device)
  THEN [s EXCEPT !.att[k] = RemoveFirst(@, device), !.pre[device] = None]
  ELSE IF enable_exceptions[Base] THEN Raise(s, "NotAttachedError")
  ELSE [s EXCEPT !.ret = "ERROR"]

\* I2CContainer.remove_device
Container_remove_device(s, k, device) ==
  IF InList(s.att[k], device)
  THEN [s EXCEPT !.att[k] = RemoveFirst(@, device), !.pre[device] = None]
  ELSE Raise(s, "NotAttachedError")

\* variant of TCA9548.attach_device: no isinstance check
TCA_attach_device_unchecked(s, m, channel, device) ==
  LET Call(w) == IF w.exc # "none" THEN w
                 ELSE Construct([w EXCEPT !.sel[m] = channel], device)
      Record(s1) ==
        IF s1.exc # "none" THEN s1
        ELSE [s1 EXCEPT
                !.chan[m] = [x \in DOMAIN @ \cup {s1.obj} |->
                               IF x = s1.obj THEN channel ELSE @[x]]]
  IN Record(IF device \in Factories
            THEN Call(call_pre_access(s, m, "write8", 0, 2^channel, MaxDepth))
            ELSE [s EXCEPT !.obj = device])

\* TCA9548.attach_device
TCA_attach_device(s, m, channel, device) ==
  LET Call(w) == IF w.exc # "none" THEN w
                 ELSE Construct([w EXCEPT !.sel[m] = channel], device)
      Record(s1) ==
        IF s1.exc # "none" THEN s1
        ELSE IF s1.obj \notin Objects THEN Raise(s1, "TypeMismatchError")
        ELSE [s1 EXCEPT
                !.chan[m] = [x \in DOMAIN @ \cup {s1.obj} |->
                               IF x = s1.obj THEN channel ELSE @[x]],
                !.pre[s1.obj] = m]
  IN Record(IF device \in Factories
            THEN Call(call_pre_access(s, m, "write8", 0, 2^channel, MaxDepth))
            ELSE [s EXCEPT !.obj = device])

\* variant of TCA9548.__init__: channel 0 is taken to be selected
TCA_init_assumes_channel0(s, m) ==
  LET Made(s1) == IF s1.exc # "none"
                  THEN [s EXCEPT !.log = s1.log, !.fl = s1.fl, !.exc = s1.exc,
                                 !.err = s1.err, !.hw = s1.hw]
                  ELSE [s1 EXCEPT !.obj = m]
  IN Made(call_pre_access(
            [s EXCEPT !.alive = @ \cup {m}, !.pre[m] = None,
                      !.chan[m] = [x \in {} |-> 0], !.sel[m] = 0],
            m, "write8", 0, 0, MaxDepth))

\* TCA9548.__init__: no hook, nothing attached, no channel known to be
\* selected, then the control register is cleared; if the write raises
\* there is no object
TCA_init(s, m) ==
  LET Made(s1) == IF s1.exc # "none"
                  THEN [s EXCEPT !.log = s1.log, !.fl = s1.fl, !.exc = s1.exc,
                                 !.err = s1.err, !.hw = s1.hw]
                  ELSE [s1 EXCEPT !.obj = m]
  IN Made(call_pre_access(
            [s EXCEPT !.alive = @ \cup {m}, !.pre[m] = None,
                      !.chan[m] = [x \in {} |-> 0], !.sel[m] = NoChannel],
            m, "write8", 0, 0, MaxDepth))

\* variant of TCA9548.remove_device: the hook of the removed device is kept
TCA_remove_device_keeps_hook(s, m, device) ==
  IF device \notin DOMAIN s.chan[m] THEN Raise(s, "NotAttachedError")
  ELSE [s EXCEPT !.chan[m] = [x \in DOMAIN @ \ {device} |-> @[x]]]

\* variant of TCA9548.remove_device: a device that is not attached is
\* accepted, and its hook cleared
TCA_remove_device_silent(s, m, device) ==
  [s EXCEPT !.chan[m] = [x \in DOMAIN @ \ {device} |-> @[x]],
            !.pre[device] = None]

\* variant of TCA9548.remove_device: the hook is cleared only for a device on
\* the selected channel
TCA_remove_device_hook_if_selected(s, m, device) ==
  IF device \notin DOMAIN s.chan[m] THEN Raise(s, "NotAttachedError")
  ELSE [s EXCEPT !.chan[m] = [x \in DOMAIN @ \ {device} |-> @[x]],
                 !.pre[device] = IF s.chan[m][device] = s.sel[m] THEN None ELSE @]

\* TCA9548.remove_device
TCA_remove_device(s, m, device) ==
  IF device \notin DOMAIN s.chan[m] THEN Raise(s, "NotAttachedError")
  ELSE [s EXCEPT !.chan[m] = [x \in DOMAIN @ \ {device} |-> @[x]],
                 !.pre[device] = None]

(* ------------------------------ the machine --------------------------- *)

\* number of bus transactions in the log of an operation
TxnCount(s) == Cardinality({i \in 1..Len(s.log) : s.log[i].ev = "txn"})

\* the transport outcomes an operation can meet: one outcome (TRUE = the
\* transaction fails) for each transaction it issues when none fails
Schedules(s) == [1..TxnCount(s) -> BOOLEAN]

\* number of attachments held: channel-map entries and container-list entries
Attachments(s) ==
  Cardinality(UNION {{<<m, x>> : x \in DOMAIN s.chan[m]} : m \in Muxes})
  + Cardinality(UNION {{<<k, i>> : i \in 1..Len(s.att[k])} : k \in Containers})

\* the arguments of an accessor call; NoCall for the other operations
Call(op, reg, val) == [op |-> op, reg |-> reg, val |-> val]
NoCall == Call(None, 0, 0)

\* the record of an operation once the call has returned to the client
Idle ==
  [kind |-> "idle", parent |-> None, arg |-> None, channel |-> 0,
   exc |-> "none", ret |-> "None", obj |-> None, log |-> <<>>,
   err |-> NoReport, call |-> NoCall]

\* the fields after the operation, and the record of the operation
Effects(s, kind, parent, arg, channel, call) ==
  /\ pre_access' = s.pre
  /\ attached_list' = s.att
  /\ attached_map' = s.chan
  /\ selected_channel' = s.sel
  /\ hwreg' = s.hw
  /\ alive' = s.alive
  /\ accessed_via' = accessed_via \cup
                       (IF kind = "access" THEN {pre_access[arg]} \cap Muxes ELSE {})
  /\ last' = [kind |-> kind, parent |-> parent, arg |-> arg, channel |-> channel,
              exc |-> s.exc, ret |-> s.ret, obj |-> s.obj, log |-> s.log,
              err |-> s.err, call |-> call]
  /\ steps' = steps + 1
  /\ UNCHANGED enable_exceptions

\* an operation of a client that calls one operation at a time
Commit(s, kind, parent, arg, channel, call) ==
  /\ Effects(s, kind, parent, arg, channel, call)
  /\ UNCHANGED pending

\* the client may call when the call before has returned
Ready == last.kind = "idle" /\ steps < MaxSteps

\* TCA9548.__init__ with a transport that answers: the control register is
\* cleared and nothing is selected.  Leaves of InitialLeaves exist, detached.
\* The application has chosen its error policy before it built the devices.
Init ==
  /\ pre_access = [o \in Objects |-> None]
  /\ attached_list = [k \in Containers |-> <<>>]
  /\ attached_map = [m \in Muxes |-> [x \in {} |-> 0]]
  /\ selected_channel = [m \in Muxes |-> NoChannel]
  /\ hwreg = [m \in Muxes |-> 0]
  /\ alive = Parents \cup InitialLeaves
  /\ enable_exceptions \in [{Base} -> BOOLEAN]
  /\ accessed_via = {}
  /\ pending = [t \in Threads |-> NoPending]
  /\ last = Idle
  /\ steps = 0

\* for the addressing layer the accessors differ only in being wrapped by
\* call_pre_access and in returning data: one accessor of each kind is called
OpKind(op) == <<op \in Decorated, op \in ReadOps>>
AccessOps ==
  {CHOOSE o \in EntryPoints : OpKind(o) = k : k \in {OpKind(op) : op \in EntryPoints}}

\* a client calls an accessor of a leaf device
Access ==
  /\ Ready
  /\ \E d \in Leaves \cap alive, op \in AccessOps :
       \E fl \in Schedules(call_pre_access(Start(<<>>), d, op, 0, 0, MaxDepth)) :
         Commit(call_pre_access(Start(fl), d, op, 0, 0, MaxDepth),
                "access", None, d, 0, Call(op, 0, 0))

\* values a client may pass as `device`
AttachValues == alive \cup {Junk} \cup
                (IF Leaves \subseteq alive THEN {JunkFactory} ELSE Factories)

TCAAttach ==
  /\ Ready
  /\ \E m \in Muxes, c \in Channels, v \in AttachValues :
       \E fl \in Schedules(TCA_attach_device(Start(<<>>), m, c, v)) :
         LET Held(s) == /\ Attachments(s) <= MaxAttached
                        /\ Commit(s, "attach", m, v, c, NoCall)
         IN Held(TCA_attach_device(Start(fl), m, c, v))

ContainerAttach ==
  /\ Ready
  /\ \E k \in Containers, v \in AttachValues :
       \E fl \in Schedules(Container_attach_device(Start(<<>>), k, v)) :
         LET Held(s) == /\ Attachments(s) <= MaxAttached
                        /\ Commit(s, "attach", k, v, 0, NoCall)
         IN Held(Container_attach_device(Start(fl), k, v))

TCARemove ==
  /\ Ready
  /\ \E m \in Muxes, v \in alive :
       Commit(TCA_remove_device(Start(<<>>), m, v), "detach", m, v, 0, NoCall)

ContainerRemove ==
  /\ Ready
  /\ \E k \in Containers, v \in alive :
       Commit(Container_remove_device(Start(<<>>), k, v), "detach", k, v, 0, NoCall)

\* a client calls the callback a multiplexer has installed on one of its
\* devices (the bound method stored in pre_access), passing any object
DeviceCallback ==
  /\ Ready
  /\ \E m \in Muxes, x \in alive :
       /\ \E n \in Objects : pre_access[n] = m
       /\ \E fl \in Schedules(InvokeHook(Start(<<>>), m, x, MaxDepth)) :
            Commit(InvokeHook(Start(fl), m, x, MaxDepth), "dispatch", m, x, 0, NoCall)

\* cls._enable_exceptions = value: the attribute is set on the class the
\* classmethod is called on
SetPolicy(cls, value) ==
  [c \in DOMAIN enable_exceptions \cup {cls} |->
     IF c = cls THEN value ELSE enable_exceptions[c]]

\* I2CDevice.enable_exceptions / disable_exceptions, called on any class
EnableExceptions ==
  /\ Ready
  /\ \E cls \in Classes :
       /\ enable_exceptions' = SetPolicy(cls, TRUE)
       /\ last' = [Idle EXCEPT !.kind = "enable", !.arg = cls]
  /\ steps' = steps + 1
  /\ UNCHANGED <<pre_access, attached_list, attached_map, selected_channel, hwreg,
                 alive, accessed_via, pending>>

DisableExceptions ==
  /\ Ready
  /\ \E cls \in Classes :
       /\ enable_exceptions' = SetPolicy(cls, FALSE)
       /\ last' = [Idle EXCEPT !.kind = "disable", !.arg = cls]
  /\ steps' = steps + 1
  /\ UNCHANGED <<pre_access, attached_list, attached_map, selected_channel, hwreg,
                 alive, accessed_via, pending>>

\* the call returns to the client; nothing of its record outlives it
Return ==
  /\ last.kind # "idle"
  /\ last' = Idle
  /\ UNCHANGED <<pre_access, attached_list, attached_map, selected_channel, hwreg,
                 alive, enable_exceptions, accessed_via, pending, steps>>

Next ==
  \/ Access
  \/ TCAAttach
  \/ ContainerAttach
  \/ TCARemove
  \/ ContainerRemove
  \/ DeviceCallback
  \/ EnableExceptions
  \/ DisableExceptions
  \/ Return

Spec == Init /\ [][Next]_vars

(* --------------- the devices from power-on, call by call --------------- *)

\* what a control register may hold before its multiplexer is constructed
PowerOnValues == {0, 2^0}

\* no multiplexer is constructed yet; containers and the leaves of
\* InitialLeaves are (their constructors touch no bus)
InitPowerOn ==
  /\ pre_access = [o \in Objects |-> None]
  /\ attached_list = [k \in Containers |-> <<>>]
  /\ attached_map = [m \in Muxes |-> [x \in {} |-> 0]]
  /\ selected_channel = [m \in Muxes |-> NoChannel]
  /\ hwreg \in [Muxes -> PowerOnValues]
  /\ alive = Containers \cup InitialLeaves
  /\ enable_exceptions \in [{Base} -> BOOLEAN]
  /\ accessed_via = {}
  /\ pending = [t \in Threads |-> NoPending]
  /\ last = Idle
  /\ steps = 0

\* a client constructs a multiplexer
TCAConstruct ==
  /\ Ready
  /\ \E m \in Muxes \ alive, fl \in [1..1 -> BOOLEAN] :
       Commit(TCA_init(Start(fl), m), "construct", None, m, 0, NoCall)

\* a client calls any accessor of a leaf device with any register and value
AccessAny ==
  /\ Ready
  /\ \E d \in Leaves \cap alive, op \in EntryPoints, reg \in Registers, val \in Values :
       \E fl \in Schedules(call_pre_access(Start(<<>>), d, op, reg, val, MaxDepth)) :
         Commit(call_pre_access(Start(fl), d, op, reg, val, MaxDepth),
                "access", None, d, 0, Call(op, reg, val))

\* a client attaches to a constructed multiplexer, passing any channel argument
TCAAttachAny ==
  /\ Ready
  /\ \E m \in Muxes \cap alive, c \in ChannelArgs, v \in AttachValues :
       \E fl \in Schedules(TCA_attach_device(Start(<<>>), m, c, v)) :
         LET Held(s) == /\ Attachments(s) <= MaxAttached
                        /\ Commit(s, "attach", m, v, c, NoCall)
         IN Held(TCA_attach_device(Start(fl), m, c, v))

NextPowerOn ==
  \/ TCAConstruct
  \/ AccessAny
  \/ TCAAttachAny
  \/ EnableExceptions
  \/ DisableExceptions
  \/ Return

SpecPowerOn == InitPowerOn /\ [][NextPowerOn]_vars

(* ------------------- the values the read accessors return ------------- *)

\* I2CDevice.ERROR
ERROR == -1

\* read_word_data returns 16 bits
WordBits == 16

\* Python values: an int, or a list of ints
PyInt(n) == [type |-> "int", v |-> n]
PyList(q) == [type |-> "list", v |-> q]
\* Python's ==: a list never equals an int
PyEq(a, b) == a.type = b.type /\ a.v = b.v

\* what the transport may deliver to a read accessor: a byte, a word, or a
\* block of MaxData bytes
ByteValues == 0..(2^RegisterBits - 1)
WordValues == 0..(2^WordBits - 1)
Contents(op) ==
  IF op \in {"readU8", "readS8"} THEN {PyInt(b) : b \in ByteValues}
  ELSE IF op \in {"readU16", "readS16"} THEN {PyInt(w) : w \in WordValues}
  ELSE {PyList(q) : q \in [1..MaxData -> ByteValues]}

\* what a read accessor returns when its transaction delivered `content`:
\* readS8 subtracts 256 from a result above 127, the others return the result
ReadResult(op, content) ==
  IF op = "readS8"
  THEN PyInt(IF content.v > 2^(RegisterBits - 1) - 1
             THEN content.v - 2^RegisterBits ELSE content.v)
  ELSE content

\* the operation record with the delivered content and the returned value
\* filled in: the result after a transaction that succeeded, ERROR after
\* handle_error returned
Deliver(s, op, content) ==
  IF s.exc # "none" THEN s
  ELSE IF s.ret = "ERROR" THEN [s EXCEPT !.ret = PyInt(ERROR)]
  ELSE [s EXCEPT !.ret = ReadResult(op, content),
                 !.log[Len(s.log)].val = content.v]

\* a client calls a read accessor of a leaf device; the transport delivers
\* any content or fails
ReadAny ==
  /\ Ready
  /\ \E d \in Leaves \cap alive, op \in ReadOps :
       \E content \in Contents(op),
          fl \in Schedules(call_pre_access(Start(<<>>), d, op, 0, 0, MaxDepth)) :
         Commit(Deliver(call_pre_access(Start(fl), d, op, 0, 0, MaxDepth), op, content),
                "read", None, d, 0, Call(op, 0, 0))

NextReads ==
  \/ ReadAny
  \/ Return

SpecReads == Init /\ [][NextReads]_vars

(* ------------- two threads of a client, no lock around an access ------- *)

\* a multiplexer with both leaves attached (on any channels), after it was
\* constructed or after accesses that left any channel selected
InitThreads ==
  \E m \in Muxes, f \in [Leaves -> Channels], c \in {NoChannel} \cup Channels :
    /\ pre_access = [o \in Objects |-> IF o \in Leaves THEN m ELSE None]
    /\ attached_list = [k \in Containers |-> <<>>]
    /\ attached_map = [x \in Muxes |-> IF x = m THEN f ELSE [y \in {} |-> 0]]
    /\ selected_channel = [x \in Muxes |-> IF x = m THEN c ELSE NoChannel]
    /\ hwreg = [x \in Muxes |-> IF x = m /\ c # NoChannel THEN 2^c ELSE 0]
    /\ alive = Objects
    /\ enable_exceptions \in [{Base} -> BOOLEAN]
    /\ accessed_via = {}
    /\ pending = [t \in Threads |-> NoPending]
    /\ last = Idle
    /\ steps = 0

\* thread t enters an accessor of a leaf: the wrapper calls the hook and the
\* hook returns (or raises, which ends the access); the threads that are
\* between their hook and their transaction have been overtaken
ThreadPreAccess(t) ==
  /\ Ready
  /\ pending[t] = NoPending
  /\ \E d \in Leaves \cap alive, op \in AccessOps :
       LET Then(s) ==
             /\ Effects(s, "hook", t, d, 0, Call(op, 0, 0))
             /\ pending' =
                  [u \in Threads |->
                     IF u = t
                     THEN IF s.exc # "none" THEN NoPending
                          ELSE [node |-> d, op |-> op, between |-> FALSE]
                     ELSE IF pending[u] = NoPending THEN NoPending
                          ELSE [pending[u] EXCEPT !.between = TRUE]]
       IN Then(wrapper_pre_access(Start(<<>>), d, op, MaxDepth))

\* thread t goes on to the body of the accessor: the bus transaction
ThreadFunc(t) ==
  /\ Ready
  /\ pending[t] # NoPending
  /\ Effects(Transaction(Start(<<>>), pending[t].node, pending[t].op, 0, 0),
             "func", t, pending[t].node, 0, Call(pending[t].op, 0, 0))
  /\ pending' = [pending EXCEPT ![t] = NoPending]

NextThreads ==
  \/ \E t \in Threads : ThreadPreAccess(t)
  \/ \E t \in Threads : ThreadFunc(t)
  \/ Return

SpecThreads == InitThreads /\ [][NextThreads]_vars

(* ------------------------ reading an operation's log ------------------ *)

\* positions of the log of record l at which a transaction on device d is issued
TxnsOn(l, d) == {i \in 1..Len(l.log) : l.log[i].ev = "txn" /\ l.log[i].dev = d}

\* positions at which the callback of parent p is entered / left for node n
CallsOf(l, p, n) ==
  {i \in 1..Len(l.log) : l.log[i].ev = "call" /\ l.log[i].hook = p /\ l.log[i].arg = n}
RetsOf(l, p, n) ==
  {i \in 1..Len(l.log) : l.log[i].ev = "ret" /\ l.log[i].hook = p /\ l.log[i].arg = n}

\* positions at which multiplexer m compares the channel of node n with its cache
CmpsOf(l, m, n) ==
  {i \in 1..Len(l.log) : l.log[i].ev = "cmp" /\ l.log[i].mux = m /\ l.log[i].arg = n}

\* record l is an access to a node attached to multiplexer m: the node is in
\* the channel map `chan` of m and its hook in `pre` is the callback of m
AccessVia(l, m, pre, chan) ==
  /\ l.kind = "access"
  /\ pre[l.arg] = m
  /\ l.arg \in DOMAIN chan[m]

\* following the hooks upward from object o ends at the bus root: o sits in
\* a tree, not on a cycle of attachments
RECURSIVE Rooted(_, _, _)
Rooted(pre, o, fuel) ==
  IF pre[o] = None THEN TRUE
  ELSE IF fuel = 0 THEN FALSE
  ELSE Rooted(pre, pre[o], fuel - 1)

\* errors of the addressing layer (the transport error is the other one)
StructuralErrors ==
  {"TypeMismatchError", "NotAttachedError", "ChainIntegrityError", "RecursionError"}

(* -------------------------------- C1 ---------------------------------- *)

\* C1 as stated: an access to a node n attached to multiplexer m of a device
\* tree issues a channel-select write to m if and only if m's selected
\* channel is unknown or differs from the channel of n, and it leaves the
\* channel of n selected; so between consecutive accesses the selected channel
\* is the channel of the node of the access before.
C1_Stated(m) ==
  (AccessVia(last', m, pre_access', attached_map') /\ Rooted(pre_access, m, MaxDepth)) =>
     /\ (TxnsOn(last', m) # {}) <=>
           (\/ selected_channel[m] = NoChannel
            \/ selected_channel[m] # attached_map[m][last'.arg])
     /\ selected_channel'[m] = attached_map[m][last'.arg]

C1_CacheCorrectness_Original == [][\A m \in Muxes : C1_Stated(m)]_vars

\* C1 amended: the same, for accesses whose delegation chain above m returns
\* without raising, so that m's callback reaches its cache comparison (an
\* error raised upstream of m ends the access before m compares or writes).
C1_Reaching(m) ==
  (AccessVia(last', m, pre_access', attached_map') /\ CmpsOf(last', m, last'.arg) # {}) =>
     /\ (TxnsOn(last', m) # {}) <=>
           (\/ selected_channel[m] = NoChannel
            \/ selected_channel[m] # attached_map[m][last'.arg])
     /\ selected_channel'[m] = attached_map[m][last'.arg]

C1_CacheCorrectness == [][\A m \in Muxes : C1_Reaching(m)]_vars

\* an access found another channel cached than the one of its node, and
\* wrote the channel-select register
C1_Witness ==
  \E m \in Muxes :
    /\ AccessVia(last, m, pre_access, attached_map)
    /\ \E i \in CmpsOf(last, m, last.arg) :
         /\ last.log[i].was \in Channels
         /\ last.log[i].was # attached_map[m][last.arg]
    /\ TxnsOn(last, m) # {}

(* -------------------------------- C2 ---------------------------------- *)

\* the control register of m enables exactly channel c
Selects(reg, c) == reg = 2^c

\* C2: in every reachable state the selected channel of every multiplexer is
\* unknown or is the channel held in its physical control register.
C2_CacheMatchesHardware ==
  \A m \in Muxes :
    selected_channel[m] = NoChannel \/ Selects(hwreg[m], selected_channel[m])

(* -------------------------------- C3 ---------------------------------- *)

\* when the transaction recorded in event e is executed on node d, every
\* multiplexer on the hook path from d to the bus root enables the channel
\* recorded for its child on that path
RECURSIVE PathSelected(_, _, _)
PathSelected(e, d, fuel) ==
  LET p == pre_access[d]
  IN IF p = None \/ fuel = 0 THEN TRUE
     ELSE /\ (p \in Muxes /\ d \in DOMAIN attached_map[p]) =>
                Selects(e.hw[p], attached_map[p][d])
          /\ PathSelected(e, p, fuel - 1)

\* C3: whenever the bus transaction of an access is executed, every
\* multiplexer above the accessed node selects the channel of the node (of
\* the child on the path).
C3_ChannelCorrectAtAccess ==
  last.kind = "access" =>
    \A i \in 1..Len(last.log) :
      last.log[i].ev = "txn" => PathSelected(last.log[i], last.log[i].dev, MaxDepth)

(* -------------------------------- C4 ---------------------------------- *)

\* C4: an access to node n whose hook is set enters the hook once, with n,
\* as the first thing it does, and issues its transaction only after the
\* hook has returned (and not at all if the hook raised); an access to a node
\* without hook issues its own transaction and nothing else.
C4_HookBeforeTransaction ==
  last.kind = "access" =>
    LET n == last.arg
        h == pre_access[n]
        L == last.log
    IN IF h = None
       THEN Len(L) = 1 /\ TxnsOn(last, n) = {1}
       ELSE /\ {i \in 1..Len(L) : L[i].ev = "call" /\ L[i].arg = n} = {1}
            /\ L[1].hook = h
            /\ IF RetsOf(last, h, n) = {}
               THEN TxnsOn(last, n) = {} /\ last.exc # "none"
               ELSE /\ TxnsOn(last, n) = {Len(L)}
                    /\ RetsOf(last, h, n) = {Len(L) - 1}

\* an access through a chain of two parents completed
C4_Witness ==
  /\ last.kind = "access"
  /\ pre_access[last.arg] \in Muxes
  /\ pre_access[pre_access[last.arg]] # None
  /\ last.exc = "none"
  /\ TxnsOn(last, last.arg) # {}

(* -------------------------------- C5 ---------------------------------- *)

\* before position j of the log, the callback of parent p has run to its end
\* for child b, and if p is a multiplexer whose cache missed, p's
\* channel-select write lies inside that run
RanBefore(l, p, b, j) ==
  \E i \in CallsOf(l, p, b), k \in RetsOf(l, p, b) :
    /\ i < k /\ k < j
    /\ \A c \in CmpsOf(l, p, b) :
         (i < c /\ c < k /\ ~l.log[c].hit) =>
            \E w \in TxnsOn(l, p) : c < w /\ w < k

\* C5: in every access, when multiplexer b, attached under parent p, compares
\* its cache or writes its channel-select register, p's callback has already
\* run for b (with p's own channel-select write, if p's cache missed); and
\* b's callback, once entered for an attached node, calls p's callback next.
C5_ChainingOrder ==
  last.kind = "access" =>
    \A b \in Muxes :
      LET p == pre_access[b]
          L == last.log
      IN p # None =>
           /\ \A j \in 1..Len(L) :
                (\/ (L[j].ev = "cmp" /\ L[j].mux = b)
                 \/ (L[j].ev = "txn" /\ L[j].dev = b)) => RanBefore(last, p, b, j)
           /\ \A j \in 1..Len(L) :
                (/\ L[j].ev = "call" /\ L[j].hook = b
                 /\ L[j].arg \in DOMAIN attached_map[b]
                 /\ j < Len(L)) =>
                   (L[j + 1].ev = "call" /\ L[j + 1].hook = p /\ L[j + 1].arg = b)

\* a leaf under a multiplexer under a multiplexer was accessed, and both
\* multiplexers wrote their channel-select register
C5_Witness ==
  /\ last.kind = "access"
  /\ \E b \in Muxes, a \in Muxes :
       /\ a # b
       /\ pre_access[last.arg] = b
       /\ pre_access[b] = a
       /\ TxnsOn(last, a) # {}
       /\ TxnsOn(last, b) # {}
       /\ TxnsOn(last, last.arg) # {}

(* -------------------------------- C6 ---------------------------------- *)

\* C6: a detach that succeeds leaves the node without hook; and an access to
\* a node without hook (so to any detached node) calls no callback, writes
\* no channel-select register, raises no error of the addressing layer and
\* leaves every selected channel as it was.
C6_Step ==
  /\ (last'.kind = "detach" /\ last'.exc = "none") =>
        /\ pre_access'[last'.arg] = None
        /\ last'.parent \in Muxes => last'.arg \notin DOMAIN attached_map'[last'.parent]
  /\ (last'.kind = "access" /\ pre_access[last'.arg] = None) =>
        /\ \A i \in 1..Len(last'.log) :
             last'.log[i].ev = "txn" /\ last'.log[i].dev = last'.arg
        /\ last'.exc \notin StructuralErrors
        /\ selected_channel' = selected_channel
        /\ pre_access'[last'.arg] = None

C6_AttachDetachSymmetry == [][C6_Step]_vars

\* the leaf built by a factory is born attached; here it has been detached
\* and then accessed while its old parent still has a channel selected
C6_Witness ==
  /\ last.kind = "access"
  /\ last.arg \notin InitialLeaves
  /\ pre_access[last.arg] = None
  /\ \A m \in Muxes : last.arg \notin DOMAIN attached_map[m]
  /\ \E m \in Muxes : selected_channel[m] # NoChannel
  /\ Len(last.log) = 1

(* -------------------------------- C7 ---------------------------------- *)

\* node n is recorded in parent p
Recorded(p, n, lists, maps) ==
  IF p \in Muxes THEN n \in DOMAIN maps[p] ELSE InList(lists[p], n)

\* C7: a detach of a node that the parent does not record raises the
\* not-attached error, whatever the error policy, issues no bus transaction
\* and changes no member list, channel map, selected channel, hook or
\* control register.
C7_Step ==
  (/\ last'.kind = "detach"
   /\ ~Recorded(last'.parent, last'.arg, attached_list, attached_map)) =>
     /\ last'.exc = "NotAttachedError"
     /\ last'.log = <<>>
     /\ UNCHANGED <<pre_access, attached_list, attached_map, selected_channel, hwreg>>

C7_DetachWithoutAttachFails == [][C7_Step]_vars

\* with exceptions disabled, a detach from a multiplexer that holds another
\* node was refused
C7_Witness ==
  /\ last.kind = "detach"
  /\ last.exc = "NotAttachedError"
  /\ \A d \in Devices : ~Enabled(enable_exceptions, d)
  /\ last.parent \in Muxes
  /\ attached_map[last.parent] # [x \in {} |-> 0]
  /\ pre_access[last.arg] # None

(* -------------------------------- C8 ---------------------------------- *)

\* values that are no node, no container and no constructible yielding one
NotAttachable == {Junk, JunkFactory}

\* C8 as stated: an attach of such a value to a parent of a device tree
\* raises the type-mismatch error, adds nothing to the parent and sets no hook.
C8_Stated ==
  (/\ last'.kind = "attach"
   /\ last'.arg \in NotAttachable
   /\ Rooted(pre_access, last'.parent, MaxDepth)) =>
     /\ last'.exc = "TypeMismatchError"
     /\ UNCHANGED <<pre_access, attached_list, attached_map>>

C8_TypeGuard_Original == [][C8_Stated]_vars

\* C8 amended: an attach of such a value always raises, adds nothing and
\* sets no hook; the error is the type-mismatch error, except that for a
\* callable the upstream hook or the forced channel select, which run before
\* the callable is called, may raise first (a failed transaction with
\* exceptions enabled, or a hook that raises), and then that error is raised.
C8_Amended ==
  (last'.kind = "attach" /\ last'.arg \in NotAttachable) =>
     /\ last'.exc # "none"
     /\ UNCHANGED <<pre_access, attached_list, attached_map>>
     /\ last'.exc # "TypeMismatchError" =>
          /\ last'.arg = JunkFactory
          /\ \/ /\ last'.exc = "BusAccessError"
                /\ last'.log # <<>>
                /\ LET e == last'.log[Len(last'.log)]
                   IN /\ e.ev = "txn" /\ ~e.ok /\ e.dev \in Muxes
                      /\ Enabled(enable_exceptions, e.dev)
             \/ /\ last'.exc \in {"RecursionError", "ChainIntegrityError"}
                /\ pre_access[last'.parent] # None
                /\ TxnsOn(last', last'.parent) = {}

C8_TypeGuard == [][C8_Amended]_vars

\* a callable that returns a non-device was rejected by a multiplexer after
\* the forced channel select
C8_Witness ==
  /\ last.kind = "attach"
  /\ last.arg = JunkFactory
  /\ last.parent \in Muxes
  /\ last.exc = "TypeMismatchError"
  /\ TxnsOn(last, last.parent) # {}

(* -------------------------------- C9 ---------------------------------- *)

\* C9: every node recorded in a parent's member list or channel map has its
\* hook referring to that parent's callback.
C9_ParentChildConsistency ==
  \A p \in Parents, n \in Objects :
    Recorded(p, n, attached_list, attached_map) => pre_access[n] = p

(* -------------------------------- C10 --------------------------------- *)

\* C10: a detach of node n from parent p while the hook of n does not refer
\* to p's callback raises an error and leaves the hook of n as it is.
C10_Step ==
  (last'.kind = "detach" /\ pre_access[last'.arg] # last'.parent) =>
     /\ last'.exc # "none"
     /\ pre_access'[last'.arg] = pre_access[last'.arg]

C10_DetachChecksHook == [][C10_Step]_vars

(* -------------------------------- C11 --------------------------------- *)

\* positions of the log of record l at which the transaction on d failed
FailedOn(l, d) == {i \in TxnsOn(l, d) : ~l.log[i].ok}

\* C11: when the transaction of an accessor call fails at transport, it is
\* the only transaction the call issues on the node (no retry), and the call
\* raises the bus-access error if the node reads exceptions as enabled, else
\* returns the error value without raising.
C11_TransportFailurePolicy ==
  (last.kind = "access" /\ FailedOn(last, last.arg) # {}) =>
     /\ Cardinality(TxnsOn(last, last.arg)) = 1
     /\ IF Enabled(enable_exceptions, last.arg)
        THEN last.exc = "BusAccessError"
        ELSE last.exc = "none" /\ last.ret = "ERROR"

\* a read of a node behind a multiplexer failed after the channel select had
\* succeeded, and returned the error value
C11_Witness ==
  /\ last.kind = "access"
  /\ last.call.op \in ReadOps
  /\ FailedOn(last, last.arg) # {}
  /\ pre_access[last.arg] \in Muxes
  /\ \E i \in TxnsOn(last, pre_access[last.arg]) : last.log[i].ok
  /\ last.ret = "ERROR"

(* -------------------------------- C12 --------------------------------- *)

\* C12: the policy is one switch for the process: all nodes read the same
\* value of it, after an enable (called on whatever class) every node reads
\* it as enabled, and after a disable every node reads it as disabled.
C12_ProcessWidePolicy ==
  /\ \A d1 \in Devices, d2 \in Devices :
       Enabled(enable_exceptions, d1) = Enabled(enable_exceptions, d2)
  /\ last.kind = "enable" => \A d \in Devices : Enabled(enable_exceptions, d)
  /\ last.kind = "disable" => \A d \in Devices : ~Enabled(enable_exceptions, d)

(* -------------------------------- C13 --------------------------------- *)

\* every node reads exceptions as disabled
SentinelMode == \A d \in Devices : ~Enabled(enable_exceptions, d)

\* C13: with exceptions disabled, an attach of a value that is no device
\* raises, a detach of a node the parent does not record raises the
\* not-attached error, a dispatch for a node missing from the multiplexer's
\* channel map raises the chain-integrity error, and no operation raises the
\* bus-access error (a transport failure is returned as the error value).
C13_Step ==
  (SentinelMode /\ last'.kind \notin {"idle", "enable", "disable"}) =>
     /\ (last'.kind = "attach" /\ last'.arg \in NotAttachable) =>
           last'.exc \in StructuralErrors
     /\ (last'.kind = "attach" /\ last'.arg = Junk) =>
           last'.exc = "TypeMismatchError"
     /\ (/\ last'.kind = "detach"
         /\ ~Recorded(last'.parent, last'.arg, attached_list, attached_map)) =>
           last'.exc = "NotAttachedError"
     /\ (/\ last'.kind = "dispatch"
         /\ last'.arg \notin DOMAIN attached_map[last'.parent]) =>
           last'.exc = "ChainIntegrityError"
     /\ last'.exc # "BusAccessError"

C13_StructuralErrorsSurface == [][C13_Step]_vars

\* with exceptions disabled, a transaction failed and was returned as the
\* error value earlier in the run, and now a container refuses to detach a
\* node it does not hold
C13_Witness ==
  /\ SentinelMode
  /\ last.kind = "detach"
  /\ last.parent \in Containers
  /\ last.exc = "NotAttachedError"
  /\ \E m \in Muxes : selected_channel[m] # NoChannel /\ ~Selects(hwreg[m], selected_channel[m])

(* -------------------------------- C14 --------------------------------- *)

\* C14: when the transaction of an accessor call fails, the error message
\* built for it names the accessor called, the node, the register argument
\* of the call, and the IOError that ended the transaction.
C14_ErrorReportFields ==
  (last.kind = "access" /\ FailedOn(last, last.arg) # {}) =>
     /\ last.err.name = last.call.op
     /\ last.err.address = last.arg
     /\ last.err.register = last.call.reg
     /\ last.err.cause \in FailedOn(last, last.arg)

(* -------------------------------- C15 --------------------------------- *)

\* the construction of a multiplexer issues one write of 0 to its control
\* register and, when it yields the object, leaves nothing attached and no
\* channel known to be selected
C15_Construction ==
  last'.kind = "construct" =>
    LET m == last'.arg
    IN /\ Len(last'.log) = 1
       /\ TxnsOn(last', m) = {1}
       /\ last'.log[1].val = 0
       /\ last'.log[1].ok => hwreg'[m] = 0
       /\ last'.exc = "none" =>
             /\ m \in alive'
             /\ selected_channel'[m] = NoChannel
             /\ attached_map'[m] = [x \in {} |-> 0]

\* the access writes the channel-select register of m for its node
SelectsFor(l, m, chan) ==
  \E i \in TxnsOn(l, m) : l.log[i].val = 2^(chan[m][l.arg])

\* C15 as stated: construction is as above, and the first access to a node
\* attached to multiplexer m since m was constructed writes m's
\* channel-select register, whatever the channel of the node.
C15_Stated ==
  /\ C15_Construction
  /\ \A m \in Muxes :
       (/\ AccessVia(last', m, pre_access', attached_map')
        /\ m \notin accessed_via) => SelectsFor(last', m, attached_map)

C15_FirstAccessSelects_Original == [][C15_Stated]_vars

\* C15 amended: construction is as above, and an access that reaches the
\* cache comparison of m while m's selected channel is still unknown writes
\* m's channel-select register, whatever the channel of the node, and makes
\* that channel the selected one.  (An attach with a class selects the
\* channel itself, so the first access after it may find its channel cached.)
C15_Amended ==
  /\ C15_Construction
  /\ \A m \in Muxes :
       (/\ AccessVia(last', m, pre_access', attached_map')
        /\ CmpsOf(last', m, last'.arg) # {}
        /\ selected_channel[m] = NoChannel) =>
           /\ SelectsFor(last', m, attached_map)
           /\ selected_channel'[m] = attached_map[m][last'.arg]

C15_FirstAccessSelects == [][C15_Amended]_vars

\* the first access through a multiplexer whose register powered up with
\* channel 0 enabled goes to a node on channel 0, and the select is written
C15_Witness ==
  \E m \in Muxes :
    /\ AccessVia(last, m, pre_access, attached_map)
    /\ attached_map[m][last.arg] = 0
    /\ \E i \in CmpsOf(last, m, last.arg) : last.log[i].was = NoChannel
    /\ \E i \in TxnsOn(last, m) : last.log[i].val = 2^0 /\ last.log[i].ok
    /\ hwreg[m] = 2^0

(* -------------------------------- C16 --------------------------------- *)

\* positions of the log of record l at which a node that did not exist
\* before the operation issues a transaction: the transactions of the
\* constructor of the node the operation builds
ConstructorTxns(l, before) ==
  {i \in 1..Len(l.log) : l.log[i].ev = "txn" /\ l.log[i].dev \in Leaves \ before}

\* C16: an attach of a class to multiplexer m on channel c writes the select
\* of c whatever the cached channel is (unless m's own upstream hook raised
\* first); every transaction of the constructor comes after that write and
\* is executed while m's control register enables channel c; and when the
\* attach returns, c is the selected channel, the new node is recorded on c
\* and its hook is m's callback.
C16_Step ==
  (last'.kind = "attach" /\ last'.parent \in Muxes /\ last'.arg = LeafClass) =>
    LET m == last'.parent
        c == last'.channel
        L == last'.log
    IN /\ last'.exc = "none" =>
             /\ \E i \in TxnsOn(last', m) : L[i].val = 2^c
             /\ selected_channel'[m] = c
             /\ last'.obj \in Leaves \ alive
             /\ last'.obj \in DOMAIN attached_map'[m]
             /\ attached_map'[m][last'.obj] = c
             /\ pre_access'[last'.obj] = m
       /\ \A j \in ConstructorTxns(last', alive) :
             /\ \E i \in TxnsOn(last', m) : i < j /\ L[i].val = 2^c
             /\ Selects(L[j].hw[m], c)

C16_AttachFactory == [][C16_Step]_vars

(* -------------------------------- C17 --------------------------------- *)

\* the operation attaches to a container of a device tree
C17_Case ==
  /\ last'.kind = "attach"
  /\ last'.parent \in Containers
  /\ Rooted(pre_access, last'.parent, MaxDepth)

\* an attach of a class to container k calls k's own hook, if set, once, as
\* the first thing it does, and constructs only after the hook has returned;
\* an attach of anything else calls no hook and touches no bus
C17_HookOnceThenConstruct ==
  C17_Case =>
    LET k == last'.parent
        p == pre_access[k]
        L == last'.log
    IN IF last'.arg \notin Factories THEN L = <<>>
       ELSE IF p = None
            THEN \A i \in 1..Len(L) : i \in ConstructorTxns(last', alive)
            ELSE /\ {i \in 1..Len(L) : L[i].ev = "call" /\ L[i].arg = k} = {1}
                 /\ L[1].hook = p
                 /\ \A j \in ConstructorTxns(last', alive) :
                      \E r \in RetsOf(last', p, k) : r < j

\* C17: as above, and so every transaction of the constructor is executed
\* while every multiplexer above the container enables the channel that
\* leads to the container.
C17_Step ==
  /\ C17_HookOnceThenConstruct
  /\ C17_Case =>
       \A j \in ConstructorTxns(last', alive) :
         PathSelected(last'.log[j], last'.parent, MaxDepth)

C17_ContainerAttachFactory == [][C17_Step]_vars

(* -------------------------------- C18 --------------------------------- *)

\* C18: whenever the callback of multiplexer m is entered for a node that is
\* not in m's channel map, the chain-integrity error is raised at once:
\* nothing follows the entry (no call of m's own hook, no cache comparison,
\* no channel-select write), and a client's call of the callback changes no
\* selected channel, register, hook or channel map.
C18_Step ==
  /\ \A i \in 1..Len(last'.log) :
       LET e == last'.log[i]
       IN (/\ e.ev = "call"
           /\ e.hook \in Muxes
           /\ e.arg \notin DOMAIN attached_map[e.hook]) =>
             /\ last'.exc = "ChainIntegrityError"
             /\ i = Len(last'.log)
  /\ (/\ last'.kind = "dispatch"
      /\ last'.arg \notin DOMAIN attached_map[last'.parent]) =>
        /\ Len(last'.log) = 1
        /\ UNCHANGED <<selected_channel, hwreg, pre_access, attached_map>>

C18_ChainIntegrity == [][C18_Step]_vars

\* the callback of a multiplexer that has a hook of its own and a selected
\* channel was called for a node it does not hold
C18_Witness ==
  /\ last.kind = "dispatch"
  /\ last.arg \notin DOMAIN attached_map[last.parent]
  /\ last.exc = "ChainIntegrityError"
  /\ pre_access[last.parent] \in Muxes
  /\ selected_channel[pre_access[last.parent]] # NoChannel

(* -------------------------------- C19 --------------------------------- *)

NoDuplicates(seq) == \A i, j \in 1..Len(seq) : seq[i] = seq[j] => i = j

\* the detach part of C19 alone
C19_DetachRemoves ==
  (/\ last.kind = "detach"
   /\ last.parent \in Containers
   /\ last.exc = "none") =>
     /\ ~InList(attached_list[last.parent], last.arg)
     /\ pre_access[last.arg] = None

\* C19: the members of a container behave as a set (a node appears at most
\* once), and after a successful detach of a node from a container the node is
\* not among the container's members and its hook is none.
C19_DetachFromSet ==
  /\ \A k \in Containers : NoDuplicates(attached_list[k])
  /\ C19_DetachRemoves

(* -------------------------------- C20 --------------------------------- *)

\* the channels of the multiplexer: one bit of the control register each
ValidChannels == 0..(RegisterBits - 1)

\* the values the operation of record l may write to select a channel of m:
\* 2^c for a channel c recorded in m's map or passed to this attach
SelectValues(l, m) ==
  {2^(attached_map[m][x]) : x \in DOMAIN attached_map[m]} \cup
  (IF l.kind = "attach" /\ l.parent = m THEN {2^(l.channel)} ELSE {})

\* C20: every channel recorded in a multiplexer's map is in 0..7, and every
\* channel-select write issued by an attach or a dispatch writes 2^c for the
\* channel c concerned, a one-hot value that fits the 8-bit register (1..128).
C20_ChannelRange ==
  /\ \A m \in Muxes : \A x \in DOMAIN attached_map[m] :
       attached_map[m][x] \in ValidChannels
  /\ last.kind \in {"attach", "access", "dispatch"} =>
       \A m \in Muxes : \A i \in TxnsOn(last, m) :
         /\ last.log[i].val \in SelectValues(last, m)
         /\ last.log[i].val \in {2^c : c \in ValidChannels}

(* -------------------------------- C21 --------------------------------- *)

\* the transaction of the operation of record l was issued while the control
\* register of the node's multiplexer held value v
TransactedUnder(l, v) ==
  /\ l.kind = "func"
  /\ pre_access[l.arg] \in Muxes
  /\ \E i \in TxnsOn(l, l.arg) : l.log[i].hw[pre_access[l.arg]] = v

\* C21 (what serialization would keep): a thread whose hook was not followed
\* by the hook of another thread issues its transaction while the control
\* register selects its node's channel; so a transaction under another
\* node's channel comes from interleaving only.
C21_Step ==
  \A t \in Threads :
    (/\ pending[t] # NoPending
     /\ pending'[t] = NoPending
     /\ ~pending[t].between) =>
       LET d == pending[t].node
       IN /\ TxnsOn(last', d) # {}
          /\ \A i \in TxnsOn(last', d) :
               last'.log[i].hw[pre_access[d]] = 2^(attached_map[pre_access[d]][d])

C21_SerializedAccessSelected == [][C21_Step]_vars

\* C21: interleaved, the transaction of a node is issued while the control
\* register holds the channel of the other node, which is another channel
C21_Witness ==
  \E other \in Leaves \ {last.arg} :
    /\ TransactedUnder(last, 2^(attached_map[pre_access[last.arg]][other]))
    /\ pre_access[other] = pre_access[last.arg]
    /\ attached_map[pre_access[last.arg]][other] #
         attached_map[pre_access[last.arg]][last.arg]

(* -------------------------------- C22 --------------------------------- *)

\* the read of record l ended with a transaction that succeeded
ReadSucceeded(l) ==
  /\ l.kind = "read"
  /\ l.exc = "none"
  /\ \E i \in TxnsOn(l, l.arg) : l.log[i].ok

\* C22: a read whose transaction succeeds never returns a value equal to the
\* error value returned on failure, for every read accessor and content.
C22_SentinelDistinguished ==
  ReadSucceeded(last) => ~PyEq(last.ret, PyInt(ERROR))

\* C22 for the accessors other than readS8
C22_UnsignedDistinguished ==
  (ReadSucceeded(last) /\ last.call.op # "readS8") => ~PyEq(last.ret, PyInt(ERROR))

(* -------------------------------- C24 --------------------------------- *)

\* the content of `bits` bits read as a two's-complement number
Signed(bits, u) == IF u >= 2^(bits - 1) THEN u - 2^bits ELSE u

\* the content delivered to the read of record l
Delivered(l) == l.log[CHOOSE i \in TxnsOn(l, l.arg) : TRUE].val

\* the readS8 part of C24
C24_SignedByte ==
  (ReadSucceeded(last) /\ last.call.op = "readS8") =>
     /\ last.ret.v = Signed(RegisterBits, Delivered(last))
     /\ last.ret.v \in -(2^(RegisterBits - 1))..(2^(RegisterBits - 1) - 1)
     /\ (last.ret.v # Delivered(last)) <=> (Delivered(last) >= 2^(RegisterBits - 1))

\* C24: readS8 and readS16 return the content as a signed two's-complement
\* value (in -128..127 and -32768..32767), which differs from the unsigned
\* content exactly when the top bit is set.
C24_SignedReads ==
  /\ C24_SignedByte
  /\ (ReadSucceeded(last) /\ last.call.op = "readS16") =>
        /\ last.ret.v = Signed(WordBits, Delivered(last))
        /\ last.ret.v \in -(2^(WordBits - 1))..(2^(WordBits - 1) - 1)
        /\ (last.ret.v # Delivered(last)) <=> (Delivered(last) >= 2^(WordBits - 1))

(* -------------------------------- C23 --------------------------------- *)

\* the objects on the chain of hooks from object o upward, o included
RECURSIVE OnPath(_, _, _)
OnPath(pre, o, fuel) ==
  IF pre[o] = None \/ fuel = 0 THEN {o}
  ELSE {o} \cup OnPath(pre, pre[o], fuel - 1)

AllSucceeded(l) == \A i \in 1..Len(l.log) : l.log[i].ev = "txn" => l.log[i].ok

\* C23: an access to a node of a device tree, all of whose transactions
\* succeed, issues at most one channel-select write to each multiplexer (so
\* at most one to A and one to B for a leaf under B under A), and none to a
\* multiplexer of its chain whose selected channel already was the channel
\* of its child on the chain.
C23_Step ==
  (/\ last'.kind = "access"
   /\ Rooted(pre_access, last'.arg, MaxDepth)
   /\ AllSucceeded(last')) =>
     \A m \in Muxes :
       /\ Cardinality(TxnsOn(last', m)) <= 1
       /\ \A x \in OnPath(pre_access, last'.arg, MaxDepth) :
            (/\ pre_access[x] = m
             /\ x \in DOMAIN attached_map[m]
             /\ selected_channel[m] = attached_map[m][x]) => TxnsOn(last', m) = {}

C23_NoRedundantTraffic == [][C23_Step]_vars

\* a leaf under B under A was accessed with all transactions succeeding: the
\* callback of A was entered twice (from B's callback and from B's own
\* channel-select write) and A and B were written once each
C23_Witness ==
  /\ last.kind = "access"
  /\ AllSucceeded(last)
  /\ \E b \in Muxes, a \in Muxes \ {pre_access[last.arg]} :
       /\ pre_access[last.arg] = b
       /\ pre_access[b] = a
       /\ pre_access[a] = None
       /\ Cardinality(CallsOf(last, a, b)) = 2
       /\ Cardinality(TxnsOn(last, a)) = 1
       /\ Cardinality(TxnsOn(last, b)) = 1
       /\ TxnsOn(last, last.arg) # {}

(* -------------------------------- C25 --------------------------------- *)

\* positions of the log of record l at which the hook failed: a
\* channel-select write failed at transport, or a multiplexer's callback was
\* entered for a node it does not hold
HookFailures(l) ==
  {i \in 1..Len(l.log) :
     \/ l.log[i].ev = "txn" /\ l.log[i].dev \in Muxes /\ ~l.log[i].ok
     \/ /\ l.log[i].ev = "call"
        /\ l.log[i].hook \in Muxes
        /\ l.log[i].arg \notin DOMAIN attached_map[l.log[i].hook]}

\* C25: with exceptions enabled (every device reads them as enabled), an
\* access whose hook fails ends at the failure: the error (bus-access error
\* for a failed channel-select write, chain-integrity error for a node the
\* multiplexer does not hold) reaches the caller, and the transaction of the
\* accessed node is not issued.
C25_HookFailurePropagates ==
  (/\ last.kind = "access"
   /\ \A d \in Devices : Enabled(enable_exceptions, d)
   /\ HookFailures(last) # {}) =>
     /\ HookFailures(last) = {Len(last.log)}
     /\ last.exc = IF last.log[Len(last.log)].ev = "txn"
                   THEN "BusAccessError" ELSE "ChainIntegrityError"
     /\ TxnsOn(last, last.arg) = {}

\* with exceptions enabled, the channel-select write of the second
\* multiplexer of a chain failed after the first one had been written
C25_Witness ==
  /\ last.kind = "access"
  /\ \A d \in Devices : Enabled(enable_exceptions, d)
  /\ last.exc = "BusAccessError"
  /\ TxnsOn(last, last.arg) = {}
  /\ pre_access[last.arg] \in Muxes
  /\ pre_access[pre_access[last.arg]] \in Muxes
  /\ \E i \in TxnsOn(last, pre_access[pre_access[last.arg]]) : last.log[i].ok
  /\ FailedOn(last, pre_access[last.arg]) # {}

(* -------------------------------- C26 --------------------------------- *)

\* C26: every access terminates, whatever was attached to whatever: the
\* chain of callbacks does not recurse without end, and unless a hook fails
\* the transaction of the accessed node is issued.
C26_AccessTerminates ==
  last.kind = "access" =>
    /\ last.exc # "RecursionError"
    /\ HookFailures(last) = {} => TxnsOn(last, last.arg) # {}

\* C26 for the nodes of a device tree
C26_RootedAccessTerminates ==
  (last.kind = "access" /\ Rooted(pre_access, last.arg, MaxDepth)) =>
    /\ last.exc # "RecursionError"
    /\ HookFailures(last) = {} => TxnsOn(last, last.arg) # {}

(* -------------------------------- C27 --------------------------------- *)

\* C27: in every state reached by attach, detach and access operations, a
\* node whose hook is the callback of multiplexer m is in m's channel map;
\* so no attach and no access ends in the chain-integrity error.
C27_HookImpliesMapped ==
  /\ \A n \in Objects : pre_access[n] \in Muxes => n \in DOMAIN attached_map[pre_access[n]]
  /\ last.kind \in {"access", "attach"} => last.exc # "ChainIntegrityError"

\* a node that was attached to one multiplexer and then to another was
\* accessed: the callback of the second one found it in its map
C27_Witness ==
  /\ last.kind = "access"
  /\ last.exc = "none"
  /\ pre_access[last.arg] \in Muxes
  /\ CmpsOf(last, pre_access[last.arg], last.arg) # {}
  /\ \E m \in Muxes \ {pre_access[last.arg]} : last.arg \in DOMAIN attached_map[m]

(* -------------------------------- C28 --------------------------------- *)

\* C28 for a rejected value that is not callable
C28_Step_NotCallable ==
  (/\ last'.kind = "attach"
   /\ last'.exc = "TypeMismatchError"
   /\ last'.arg \notin Factories) =>
     UNCHANGED <<attached_list, attached_map, pre_access, selected_channel, hwreg>>

C28_RejectedValueFrame == [][C28_Step_NotCallable]_vars

\* C28: an attach that fails with the type-mismatch error changes nothing:
\* member lists, channel maps, hooks, selected channels and control registers
\* are as before the call, also when the rejected value was a callable that
\* returned a non-device.
C28_Step ==
  (last'.kind = "attach" /\ last'.exc = "TypeMismatchError") =>
     UNCHANGED <<attached_list, attached_map, pre_access, selected_channel, hwreg>>

C28_RejectedAttachFrame == [][C28_Step]_vars

====
